---------------------------- MODULE Spec2Model ----------------------------
(***************************************************************************)
(* Model of step.go (steps-hockeyapp-android-deploy): one run of main(),   *)
(* from reading the configuration to process exit.  The environment        *)
(* (configuration values, the file system, the HTTP server and the envman  *)
(* tool) is chosen nondeterministically from small sets.                   *)
(***************************************************************************)
EXTENDS Integers, Sequences, FiniteSets, TLC

VARIABLES
    apkPath,             \* os.Getenv("apk_path")
    mappingPath,         \* os.Getenv("mapping_path")
    apiToken,            \* os.Getenv("api_token")
    appID,               \* os.Getenv("app_id")
    fs,                  \* the file system: what each path is on disk
    pc,                  \* position of main
    exitCode,            \* process exit status (-1 while the process runs)
    envmanCalls,         \* every call of exportEnvironmentWithEnvman, in order
    requestURL,          \* local requestURL of main
    createRequestCalled, \* createRequest has been entered
    openFiles,           \* handles opened by os.Open and not closed: sequence of file-field keys
    httpRequests,        \* number of calls of client.Do
    response,            \* *http.Response returned by client.Do; closed: its Body is closed
    requestErr,          \* error returned by client.Do (TRUE = non-nil)
    contents,            \* bytes returned by ioutil.ReadAll
    readErr,             \* error returned by ioutil.ReadAll (TRUE = non-nil)
    unmarshalCalled,     \* json.Unmarshal has been called on contents
    responseModel        \* local responseModel of main

cfgVars   == <<apkPath, mappingPath, apiToken, appID, fs>>
reqVars   == <<requestURL, createRequestCalled, openFiles>>
respVars  == <<httpRequests, response, requestErr, contents, readErr>>
parseVars == <<unmarshalCalled, responseModel>>
vars      == <<cfgVars, reqVars, respVars, parseVars, pc, exitCode, envmanCalls>>

-----------------------------------------------------------------------------
(* Constants of step.go *)

hockeyAppDeployStatusKey     == "HOCKEYAPP_DEPLOY_STATUS"
hockeyAppDeployStatusSuccess == "success"
hockeyAppDeployStatusFailed  == "failed"
hockeyAppDeployPublicURLKey  == "HOCKEYAPP_DEPLOY_PUBLIC_URL"
hockeyAppDeployBuildURLKey   == "HOCKEYAPP_DEPLOY_BUILD_URL"
hockeyAppDeployConfigURLKey  == "HOCKEYAPP_DEPLOY_CONFIG_URL"

GenericUploadURL == "https://rink.hockeyapp.net/api/2/apps/upload"
PerAppURLPrefix  == "https://rink.hockeyapp.net/api/2/apps/"
PerAppURLSuffix  == "/app_versions/upload"

-----------------------------------------------------------------------------
(* Bounds and input sets *)

\* number of distinct non-empty URL strings the server may put in a body
MaxUrlVals == 2
URLPool    == <<"https://a", "https://b", "https://c", "https://d">>
URLStrings == {URLPool[i] : i \in 1..MaxUrlVals}

ApkPaths     == {"", "app.apk"}
MappingPaths == {"", "mapping.txt"}
ApiTokens    == {"", "token"}
\* "ab\tcd" stands for an app id holding a control character, which
\* net/url refuses to parse
CtlAppID     == "ab\tcd"
AppIDs       == {"", "abc123", CtlAppID}
DiskPaths    == {"app.apk", "mapping.txt"}
\* what a path is on disk:
\*   "file"       a readable regular file
\*   "dir"        a directory: os.Stat and os.Open succeed, reading fails
\*   "unreadable" os.Stat succeeds, os.Open fails (no read permission)
\*   "missing"    os.Stat fails with an IsNotExist error
\*   "staterr"    os.Stat fails with another error (e.g. EACCES on the parent)
FileKinds    == {"file", "dir", "unreadable", "missing", "staterr"}

StatusCodes  == {199, 200, 201, 299, 300, 301, 404}
\* the status of the response client.Do returns together with an error when
\* the redirect policy stops following redirects
RedirectStatusCodes == {301}

-----------------------------------------------------------------------------
(* JSON bodies *)

JsonTags   == {"config_url", "public_url", "build_url"}
JsonKeys   == JsonTags \cup {"other"}
JsonString(s) == [t |-> "string", s |-> s]
JsonNull   == [t |-> "null", s |-> ""]
JsonNumber == [t |-> "number", s |-> "5"]
JsonValues == {JsonString(s) : s \in URLStrings} \cup {JsonNull, JsonNumber}
NoMembers  == [k \in {} |-> JsonNull]
\* a body is malformed text (this includes a truncated body), the JSON value
\* null, a JSON array, or a JSON object with distinct member names
Bodies ==
    {[kind |-> k, members |-> NoMembers] : k \in {"malformed", "null", "array"}}
    \cup {[kind |-> "object", members |-> m] :
            m \in UNION {[D -> JsonValues] : D \in SUBSET JsonKeys}}
TruncatedBody == [kind |-> "malformed", members |-> NoMembers]

ZeroResponseModel == [ConfigURL |-> "", PublicURL |-> "", BuildURL |-> ""]

\* the value json.Unmarshal stores in the string field tagged `tag`
DecodedField(m, tag) ==
    IF tag \in DOMAIN m /\ m[tag].t = "string" THEN m[tag].s ELSE ""

\* json.Unmarshal(contents, &responseModel) on a zero responseModel:
\* a syntax error stores nothing; null is a no-op; an array cannot be stored
\* in a struct; a number cannot be stored in a string field (the other
\* fields are still decoded, and the error is returned)
Unmarshal(data) ==
    CASE data.kind = "malformed" -> [err |-> TRUE,  model |-> ZeroResponseModel]
      [] data.kind = "null"      -> [err |-> FALSE, model |-> ZeroResponseModel]
      [] data.kind = "array"     -> [err |-> TRUE,  model |-> ZeroResponseModel]
      [] OTHER ->
           [err   |-> \E tag \in JsonTags \cap DOMAIN data.members :
                          data.members[tag].t = "number",
            model |-> [ConfigURL |-> DecodedField(data.members, "config_url"),
                       PublicURL |-> DecodedField(data.members, "public_url"),
                       BuildURL  |-> DecodedField(data.members, "build_url")]]

-----------------------------------------------------------------------------
(* Helpers *)

\* genericIsPathExists with the IsNotExist branch reporting the path as found
genericIsPathExists_missingExists(pth) ==
    IF pth = "" THEN [exists |-> FALSE, err |-> TRUE]
    ELSE IF fs[pth] \in {"file", "dir", "unreadable", "missing"}
    THEN [exists |-> TRUE, err |-> FALSE]
    ELSE [exists |-> FALSE, err |-> TRUE]

\* genericIsPathExists, lines 76-88; os.Stat is read off the file system
genericIsPathExists(pth) ==
    IF pth = "" THEN [exists |-> FALSE, err |-> TRUE]
    ELSE IF fs[pth] \in {"file", "dir", "unreadable"} THEN [exists |-> TRUE, err |-> FALSE]
    ELSE IF fs[pth] = "missing" THEN [exists |-> FALSE, err |-> FALSE]
    ELSE [exists |-> FALSE, err |-> TRUE]

IsPathExists(pth) == genericIsPathExists(pth)

EnvmanCall(key, value, ok) == [key |-> key, value |-> value, ok |-> ok]

\* exportEnvironmentWithEnvman(key, value) after the calls `calls`: runs
\* envman, which succeeds (ok) or returns an error
exportEnvironmentWithEnvman(calls, key, value, ok) ==
    Append(calls, EnvmanCall(key, value, ok))

\* logFail after the envman calls `calls`: export the failed status (an
\* error of that export is only warned about), print, os.Exit(1)
logFailAfter(calls) ==
    /\ \E ok \in BOOLEAN :
          envmanCalls' = exportEnvironmentWithEnvman(calls, hockeyAppDeployStatusKey,
                                                     hockeyAppDeployStatusFailed, ok)
    /\ pc' = "exited"
    /\ exitCode' = 1

logFail == logFailAfter(envmanCalls)

-----------------------------------------------------------------------------
Init ==
    /\ apkPath \in ApkPaths
    /\ mappingPath \in MappingPaths
    /\ apiToken \in ApiTokens
    /\ appID \in AppIDs
    /\ fs \in [DiskPaths -> FileKinds]
    /\ pc = "validateApk"
    /\ exitCode = -1
    /\ envmanCalls = <<>>
    /\ requestURL = ""
    /\ createRequestCalled = FALSE
    /\ openFiles = <<>>
    /\ httpRequests = 0
    /\ response = [isNil |-> TRUE, StatusCode |-> 0, body |-> TruncatedBody,
                   readFails |-> FALSE, closed |-> FALSE]   \* nil
    /\ requestErr = FALSE
    /\ contents = TruncatedBody
    /\ readErr = FALSE
    /\ unmarshalCalled = FALSE
    /\ responseModel = ZeroResponseModel

\* main, lines 185-192
ValidateApk ==
    /\ pc = "validateApk"
    /\ IF apkPath = "" THEN logFail
       ELSE IF IsPathExists(apkPath).err THEN logFail
       ELSE IF ~IsPathExists(apkPath).exists THEN logFail
       ELSE pc' = "validateMapping" /\ UNCHANGED <<exitCode, envmanCalls>>
    /\ UNCHANGED <<cfgVars, reqVars, respVars, parseVars>>

\* main, lines 194-200
ValidateMapping ==
    /\ pc = "validateMapping"
    /\ IF mappingPath /= "" /\ IsPathExists(mappingPath).err THEN logFail
       ELSE IF mappingPath /= "" /\ ~IsPathExists(mappingPath).exists THEN logFail
       ELSE pc' = "validateToken" /\ UNCHANGED <<exitCode, envmanCalls>>
    /\ UNCHANGED <<cfgVars, reqVars, respVars, parseVars>>

\* main, lines 202-204
ValidateToken ==
    /\ pc = "validateToken"
    /\ IF apiToken = "" THEN logFail
       ELSE pc' = "createRequest" /\ UNCHANGED <<exitCode, envmanCalls>>
    /\ UNCHANGED <<cfgVars, reqVars, respVars, parseVars>>

-----------------------------------------------------------------------------
(* Request construction *)

\* SelectRequestURL with the test on the app id inverted
SelectRequestURL_inverted(id) ==
    IF id = "" THEN PerAppURLPrefix \o id \o PerAppURLSuffix
    ELSE GenericUploadURL

\* main, lines 210-213
SelectRequestURL(id) ==
    IF id /= "" THEN PerAppURLPrefix \o id \o PerAppURLSuffix
    ELSE GenericUploadURL

\* main, lines 227-232: the files map, as the set of its keys and its lookup
FileKeys == IF mappingPath /= "" THEN {"ipa", "dsym"} ELSE {"ipa"}
FilePath(key) == IF key = "ipa" THEN apkPath ELSE mappingPath

\* the orders in which `for key, file := range files` may visit the map
RangeOrders(keys) ==
    {o \in [1..Cardinality(keys) -> keys] : \A i, j \in DOMAIN o : i /= j => o[i] /= o[j]}

\* createRequest, lines 116-128: the loop over the files, visiting the keys
\* of `order`; `opened` are the handles os.Open has returned so far.  No
\* statement of the loop closes a handle.
RECURSIVE AddFiles(_, _)
AddFiles(order, opened) ==
    IF order = <<>> THEN [err |-> FALSE, opened |-> opened]
    ELSE LET key == Head(order) IN
         IF fs[FilePath(key)] \notin {"file", "dir"}
         THEN [err |-> TRUE, opened |-> opened]                \* os.Open fails
         ELSE IF fs[FilePath(key)] = "dir"
         THEN [err |-> TRUE, opened |-> Append(opened, key)]   \* io.Copy fails
         ELSE AddFiles(Tail(order), Append(opened, key))

\* http.NewRequest fails when the URL does not parse
NewRequestFails(url) == url = PerAppURLPrefix \o CtlAppID \o PerAppURLSuffix

\* createRequest, lines 104-140 (writing the fields to the in-memory buffer
\* cannot fail)
createRequest(url, order) ==
    LET added == AddFiles(order, <<>>) IN
    IF added.err THEN added
    ELSE [err |-> NewRequestFails(url), opened |-> added.opened]

\* main, lines 210-238
CreateRequest ==
    /\ pc = "createRequest"
    /\ requestURL' = SelectRequestURL(appID)
    /\ createRequestCalled' = TRUE
    /\ \E order \in RangeOrders(FileKeys) :
          LET r == createRequest(requestURL', order) IN
          /\ openFiles' = r.opened
          /\ IF r.err THEN logFail
             ELSE pc' = "do" /\ UNCHANGED <<exitCode, envmanCalls>>
    /\ UNCHANGED <<cfgVars, respVars, parseVars>>

-----------------------------------------------------------------------------
(* Request and response *)

NilResponse == [isNil |-> TRUE, StatusCode |-> 0, body |-> TruncatedBody,
                readFails |-> FALSE, closed |-> FALSE]

\* what client.Do may return
\*  - a transport error: no response and an error
\*  - the redirect policy gave up: the last response, its body already
\*    closed, and an error
\*  - a response and no error; reading its body may still fail
DoOutcomes ==
    {[resp |-> NilResponse, err |-> TRUE]}
    \cup {[resp |-> [isNil |-> FALSE, StatusCode |-> s, body |-> TruncatedBody,
                     readFails |-> FALSE, closed |-> TRUE],
           err |-> TRUE] : s \in RedirectStatusCodes}
    \cup {[resp |-> [isNil |-> FALSE, StatusCode |-> s, body |-> b,
                     readFails |-> FALSE, closed |-> FALSE],
           err |-> FALSE] : s \in StatusCodes, b \in Bodies}
    \cup {[resp |-> [isNil |-> FALSE, StatusCode |-> s, body |-> TruncatedBody,
                     readFails |-> TRUE, closed |-> FALSE],
           err |-> FALSE] : s \in StatusCodes}

\* main, lines 240-241
Do ==
    /\ pc = "do"
    /\ httpRequests' = httpRequests + 1
    /\ \E o \in DoOutcomes : response' = o.resp /\ requestErr' = o.err
    /\ pc' = "readBody"
    /\ UNCHANGED <<cfgVars, reqVars, parseVars, contents, readErr, exitCode, envmanCalls>>

\* ioutil.ReadAll(response.Body)
ReadAll(resp) ==
    IF resp.closed \/ resp.readFails THEN [contents |-> TruncatedBody, err |-> TRUE]
    ELSE [contents |-> resp.body, err |-> FALSE]

\* main, lines 243-244: response.Body of a nil response is a nil pointer
\* dereference; the runtime panics and the process exits with status 2
ReadBody ==
    /\ pc = "readBody"
    /\ IF response.isNil
       THEN /\ pc' = "exited"
            /\ exitCode' = 2
            /\ UNCHANGED <<contents, readErr>>
       ELSE /\ contents' = ReadAll(response).contents
            /\ readErr' = ReadAll(response).err
            /\ pc' = "checkRequestErr"
            /\ UNCHANGED exitCode
    /\ UNCHANGED <<cfgVars, reqVars, parseVars, httpRequests, response, requestErr, envmanCalls>>

\* main, lines 250-259
CheckRequestErr ==
    /\ pc = "checkRequestErr"
    /\ IF requestErr THEN logFail
       ELSE pc' = "checkStatus" /\ UNCHANGED <<exitCode, envmanCalls>>
    /\ UNCHANGED <<cfgVars, reqVars, respVars, parseVars>>

\* main, line 261: the condition of the status check
IsFailureStatus(code) == code < 200 \/ code > 300

\* main, lines 261-270
CheckStatus ==
    /\ pc = "checkStatus"
    /\ IF IsFailureStatus(response.StatusCode) THEN logFail
       ELSE pc' = "checkReadErr" /\ UNCHANGED <<exitCode, envmanCalls>>
    /\ UNCHANGED <<cfgVars, reqVars, respVars, parseVars>>

\* main, lines 279-281
CheckReadErr ==
    /\ pc = "checkReadErr"
    /\ IF readErr THEN logFail
       ELSE pc' = "parseBody" /\ UNCHANGED <<exitCode, envmanCalls>>
    /\ UNCHANGED <<cfgVars, reqVars, respVars, parseVars>>

\* ParseBody with the error of json.Unmarshal ignored
ParseBody_errIgnored ==
    /\ pc = "parseBody"
    /\ unmarshalCalled' = TRUE
    /\ responseModel' = Unmarshal(contents).model
    /\ pc' = "exportStatus"
    /\ UNCHANGED <<cfgVars, reqVars, respVars, exitCode, envmanCalls>>

\* main, lines 283-286
ParseBody ==
    /\ pc = "parseBody"
    /\ unmarshalCalled' = TRUE
    /\ responseModel' = Unmarshal(contents).model
    /\ IF Unmarshal(contents).err THEN logFail
       ELSE pc' = "exportStatus" /\ UNCHANGED <<exitCode, envmanCalls>>
    /\ UNCHANGED <<cfgVars, reqVars, respVars>>

-----------------------------------------------------------------------------
(* Export *)

\* ExportOrFail with a failed export only recorded, main continuing
ExportOrFail_continue(key, value, next) ==
    \E ok \in BOOLEAN :
        /\ envmanCalls' = exportEnvironmentWithEnvman(envmanCalls, key, value, ok)
        /\ pc' = next
        /\ exitCode' = IF next = "exited" THEN 0 ELSE exitCode

\* one `if err := exportEnvironmentWithEnvman(key, value); err != nil { logFail }`
\* of main; `next` is where main continues when the export succeeded
ExportOrFail(key, value, next) ==
    \E ok \in BOOLEAN :
        IF ok
        THEN /\ envmanCalls' = exportEnvironmentWithEnvman(envmanCalls, key, value, TRUE)
             /\ pc' = next
             /\ exitCode' = IF next = "exited" THEN 0 ELSE exitCode
        ELSE logFailAfter(exportEnvironmentWithEnvman(envmanCalls, key, value, FALSE))

\* main, lines 299-301
ExportStatus ==
    /\ pc = "exportStatus"
    /\ ExportOrFail(hockeyAppDeployStatusKey, hockeyAppDeployStatusSuccess, "exportPublicURL")
    /\ UNCHANGED <<cfgVars, reqVars, respVars, parseVars>>

\* ExportPublicURL exporting the build URL under the public URL key
ExportPublicURL_wrongField ==
    /\ pc = "exportPublicURL"
    /\ ExportOrFail(hockeyAppDeployPublicURLKey, responseModel.BuildURL, "exportBuildURL")
    /\ UNCHANGED <<cfgVars, reqVars, respVars, parseVars>>

\* main, lines 303-305
ExportPublicURL ==
    /\ pc = "exportPublicURL"
    /\ ExportOrFail(hockeyAppDeployPublicURLKey, responseModel.PublicURL, "exportBuildURL")
    /\ UNCHANGED <<cfgVars, reqVars, respVars, parseVars>>

\* main, lines 307-309
ExportBuildURL ==
    /\ pc = "exportBuildURL"
    /\ ExportOrFail(hockeyAppDeployBuildURLKey, responseModel.BuildURL, "exportConfigURL")
    /\ UNCHANGED <<cfgVars, reqVars, respVars, parseVars>>

\* the call deferred at line 243, response.Body.Close(), as it runs when
\* main returns; os.Exit in logFail ends the process without running it
DeferredBodyClose(resp) == [resp EXCEPT !.closed = TRUE]

\* main, lines 311-314: after the last export main returns, the deferred
\* response.Body.Close() runs and the process exits with status 0
ExportConfigURL ==
    /\ pc = "exportConfigURL"
    /\ ExportOrFail(hockeyAppDeployConfigURLKey, responseModel.ConfigURL, "exited")
    /\ response' = IF exitCode' = 0 THEN DeferredBodyClose(response) ELSE response
    /\ UNCHANGED <<cfgVars, reqVars, parseVars, httpRequests, requestErr, contents, readErr>>

-----------------------------------------------------------------------------
Next ==
    \/ ValidateApk
    \/ ValidateMapping
    \/ ValidateToken
    \/ CreateRequest
    \/ Do
    \/ ReadBody
    \/ CheckRequestErr
    \/ CheckStatus
    \/ CheckReadErr
    \/ ParseBody
    \/ ExportStatus
    \/ ExportPublicURL
    \/ ExportBuildURL
    \/ ExportConfigURL

Spec == Init /\ [][Next]_vars

-----------------------------------------------------------------------------
(* Vocabulary of the properties *)

Exited == pc = "exited"
Calls  == DOMAIN envmanCalls

\* an export of the failed status, as logFail makes it
IsFailedStatusCall(c) ==
    c.key = hockeyAppDeployStatusKey /\ c.value = hockeyAppDeployStatusFailed
\* an export of the success path of main: the success status or a URL key
IsSuccessPathCall(c) == ~IsFailedStatusCall(c)

\* client.Do has returned a response (with or without an error)
HasResponse == httpRequests > 0 /\ ~response.isNil
\* client.Do has returned a response and no error
HasGoodResponse == HasResponse /\ ~requestErr
\* the success range of the specification, [200, 300)
InSuccessRange(code) == 200 <= code /\ code < 300

\* the configuration passes every check of the validator
ValidConfig ==
    /\ apkPath /= ""
    /\ fs[apkPath] \notin {"missing", "staterr"}
    /\ mappingPath /= "" => fs[mappingPath] \notin {"missing", "staterr"}
    /\ apiToken /= ""

\* the body is JSON that fits the three-field record
BodyParses(b) ==
    \/ b.kind = "null"
    \/ /\ b.kind = "object"
       /\ \A k \in DOMAIN b.members : k \in JsonTags => b.members[k] /= JsonNumber

\* the string a body gives for a field; empty when the field is absent
JsonField(b, name) ==
    IF b.kind = "object" /\ name \in DOMAIN b.members /\ b.members[name].t = "string"
    THEN b.members[name].s
    ELSE ""

-----------------------------------------------------------------------------
(* Properties *)

\* C1: a response with status exactly 300 is classified as a failure: no
\* success status and no URL key is exported and the exit code is 1; only
\* statuses in [200, 300) reach the success path.
C1_Status300IsFailure ==
    HasGoodResponse =>
        /\ response.StatusCode = 300 =>
              /\ \A i \in Calls : IsFailedStatusCall(envmanCalls[i])
              /\ Exited => exitCode = 1
        /\ (\E i \in Calls : IsSuccessPathCall(envmanCalls[i])) =>
              InSuccessRange(response.StatusCode)

\* C2: when client.Do returns an error and no response, the run ends with
\* exit code 1 after attempting to export the failed status, and exports no
\* success status and no URL key.
C2_TransportFailureExitsOne ==
    (Exited /\ httpRequests > 0 /\ response.isNil /\ requestErr) =>
        /\ exitCode = 1
        /\ Len(envmanCalls) = 1
        /\ IsFailedStatusCall(envmanCalls[1])

\* C3: no partial success: a run that exits 0 exported all four keys, and a
\* run that exits 1 exported nothing but the failed status.  (The claim also
\* says that these are the only two exit codes.)
C3_NoPartialSuccess ==
    Exited =>
        /\ exitCode = 0 =>
              /\ Len(envmanCalls) = 4
              /\ \A i \in Calls : envmanCalls[i].ok
              /\ envmanCalls[1].key = hockeyAppDeployStatusKey
              /\ envmanCalls[1].value = hockeyAppDeployStatusSuccess
              /\ envmanCalls[2].key = hockeyAppDeployPublicURLKey
              /\ envmanCalls[3].key = hockeyAppDeployBuildURLKey
              /\ envmanCalls[4].key = hockeyAppDeployConfigURLKey
        /\ exitCode = 1 =>
              \A i \in Calls : envmanCalls[i].ok => IsFailedStatusCall(envmanCalls[i])

\* C4: validation fails fast: with an invalid configuration the run never
\* leaves the validator, never calls createRequest, issues no HTTP request
\* and exits with code 1; a request is issued only with a valid configuration.
C4_ValidationFailsFast ==
    /\ ~ValidConfig =>
          /\ pc \in {"validateApk", "validateMapping", "validateToken", "exited"}
          /\ ~createRequestCalled
          /\ httpRequests = 0
          /\ Exited => exitCode = 1
    /\ (createRequestCalled \/ httpRequests > 0) => ValidConfig

C4_Witness ==
    /\ Exited /\ exitCode = 1
    /\ apkPath /= "" /\ fs[apkPath] = "file" /\ apiToken /= ""
    /\ mappingPath /= "" /\ fs[mappingPath] = "missing"
    /\ ~createRequestCalled /\ httpRequests = 0

\* C5: a 2xx response whose body is read and parses, with every envman call
\* succeeding, ends with exit code 0 after exporting exactly the success
\* status and the three URL keys, each with the value of its JSON field (the
\* empty string for an absent field).
C5_SuccessExportsFields ==
    (/\ Exited
     /\ HasGoodResponse
     /\ InSuccessRange(response.StatusCode)
     /\ ~response.readFails
     /\ BodyParses(response.body)
     /\ \A i \in Calls : envmanCalls[i].ok) =>
        /\ exitCode = 0
        /\ envmanCalls =
             << EnvmanCall("HOCKEYAPP_DEPLOY_STATUS", "success", TRUE),
                EnvmanCall("HOCKEYAPP_DEPLOY_PUBLIC_URL",
                           JsonField(response.body, "public_url"), TRUE),
                EnvmanCall("HOCKEYAPP_DEPLOY_BUILD_URL",
                           JsonField(response.body, "build_url"), TRUE),
                EnvmanCall("HOCKEYAPP_DEPLOY_CONFIG_URL",
                           JsonField(response.body, "config_url"), TRUE) >>

C5_Witness ==
    /\ Exited /\ exitCode = 0
    /\ response.StatusCode = 200
    /\ response.closed
    /\ response.body.kind = "object"
    /\ DOMAIN response.body.members = {"public_url", "build_url"}
    /\ response.body.members["public_url"] = JsonString("https://a")
    /\ response.body.members["build_url"] = JsonString("https://b")
    /\ Len(envmanCalls) = 4
    /\ envmanCalls[2].value = "https://a"
    /\ envmanCalls[3].value = "https://b"
    /\ envmanCalls[4].value = ""

\* C6: a response whose status is outside the success range [200, 300) is
\* never parsed, leads to no export other than the failed status, and ends
\* with a non-zero exit code.
C6_FailureStatusNotParsed ==
    (HasResponse /\ ~InSuccessRange(response.StatusCode)) =>
        /\ ~unmarshalCalled
        /\ \A i \in Calls : IsFailedStatusCall(envmanCalls[i])
        /\ Exited => exitCode /= 0

\* C7: an export of the failed status, failing or not, ends the run with exit
\* code 1; a failed export of the success status or of a URL key is followed
\* by no further success-path export and ends the run with exit code 1; a
\* run never exits 0 after a failed export.
C7_ExportFailurePolicy ==
    /\ \A i \in Calls :
          IsFailedStatusCall(envmanCalls[i]) =>
              i = Len(envmanCalls) /\ Exited /\ exitCode = 1
    /\ \A i \in Calls :
          (IsSuccessPathCall(envmanCalls[i]) /\ ~envmanCalls[i].ok) =>
              /\ Exited /\ exitCode = 1
              /\ \A j \in Calls : j > i => IsFailedStatusCall(envmanCalls[j])
    /\ exitCode = 0 => \A i \in Calls : envmanCalls[i].ok

C7_Witness ==
    /\ Exited /\ exitCode = 1
    /\ Len(envmanCalls) = 3
    /\ envmanCalls[1] = EnvmanCall(hockeyAppDeployStatusKey, hockeyAppDeployStatusSuccess, TRUE)
    /\ envmanCalls[2].key = hockeyAppDeployPublicURLKey /\ ~envmanCalls[2].ok
    /\ IsFailedStatusCall(envmanCalls[3]) /\ ~envmanCalls[3].ok

\* C8: once validation has passed, the request URL is the generic upload URL
\* when app_id is empty and the per-app URL with app_id substituted
\* otherwise; no request is made to any other URL.
C8_RequestURL ==
    /\ createRequestCalled =>
          /\ appID = "" => requestURL = "https://rink.hockeyapp.net/api/2/apps/upload"
          /\ \A id \in AppIDs \ {""} :
                appID = id => requestURL = "https://rink.hockeyapp.net/api/2/apps/" \o id
                                              \o "/app_versions/upload"
    /\ httpRequests > 0 => createRequestCalled
    /\ ~createRequestCalled => requestURL = ""

C8_Witness ==
    /\ httpRequests = 1
    /\ appID = "abc123"
    /\ requestURL = "https://rink.hockeyapp.net/api/2/apps/abc123/app_versions/upload"

\* C9: when createRequest has returned, with a request or with an error, no
\* file it opened is still open.
C9_FilesClosedOnReturn ==
    createRequestCalled => openFiles = <<>>

\* C10: a 2xx response whose body cannot be read or does not parse ends the
\* run with exit code 1: the only export is the failed status, no success
\* status or URL key is exported, and no second HTTP request is made.
C10_ReadOrParseFailureIsFatal ==
    (/\ HasGoodResponse
     /\ InSuccessRange(response.StatusCode)
     /\ response.readFails \/ ~BodyParses(response.body)) =>
        /\ httpRequests = 1
        /\ \A i \in Calls : IsFailedStatusCall(envmanCalls[i])
        /\ pc \notin {"exportStatus", "exportPublicURL", "exportBuildURL", "exportConfigURL"}
        /\ Exited => exitCode = 1 /\ Len(envmanCalls) = 1

C10_Witness ==
    /\ Exited /\ exitCode = 1
    /\ HasGoodResponse
    /\ response.StatusCode = 200
    /\ ~response.readFails
    /\ response.body.kind = "object"
    /\ "build_url" \in DOMAIN response.body.members
    /\ response.body.members["build_url"] = JsonNumber
    /\ unmarshalCalled
    /\ Len(envmanCalls) = 1
=============================================================================
